---- MODULE Spec2Model ----
(***************************************************************************)
(* Model of Source/cmMessenger.cxx: the classification of a diagnostic     *)
(* (ConvertMessageType), its visibility (IsMessageTypeVisible), the        *)
(* rendering of the message block (DisplayMessage, displayMessage) and the *)
(* hand-over to cmSystemTools (SetErrorOccured, Message).                  *)
(*                                                                         *)
(* Severity names are those of the MessageType enumeration.  The           *)
(* specification's names map as: Log = LOG, Warning = WARNING,             *)
(* FatalError = FATAL_ERROR, InternalError = INTERNAL_ERROR,               *)
(* DeveloperWarning = AUTHOR_WARNING, DeveloperError = AUTHOR_ERROR,       *)
(* DeprecationWarning = DEPRECATION_WARNING,                               *)
(* DeprecationError = DEPRECATION_ERROR.                                   *)
(***************************************************************************)
EXTENDS Integers, Sequences, FiniteSets, TLC

VARIABLES
  cfg,            \* the four booleans read through the messenger's getters
  bootstrap,      \* TRUE iff the build defines CMAKE_BOOTSTRAP
  errorOccurred,  \* cmSystemTools' process-wide error flag
  sink,           \* what cmSystemTools::Message received, in order
  pc,             \* position of the (single, synchronous) IssueMessage call
  t,              \* IssueMessage/DisplayMessage/displayMessage: MessageType t
  text,           \* IssueMessage: text
  backtrace,      \* IssueMessage: backtrace
  force,          \* IssueMessage: bool force
  msg,            \* DisplayMessage: std::ostringstream msg
  md,             \* displayMessage: cmMessageMetadata md
  entry,          \* history: arguments and observable state at call entry
  calls,          \* history: one record per returned IssueMessage call
  queries         \* history: direct calls of the two const member
                  \* functions, one record [fn, arg, ret] per call

vars == << cfg, bootstrap, errorOccurred, sink, pc, t, text, backtrace, force,
           msg, md, entry, calls, queries >>

\* ------------------------------------------------------------------ bounds

\* Number of IssueMessage calls in one behaviour.
MaxCalls == 2

\* Number of direct ConvertMessageType / IsMessageTypeVisible calls.
MaxQueries == 2

\* ------------------------------------------------------------------ data

MessageType ==
  { "LOG", "WARNING", "FATAL_ERROR", "INTERNAL_ERROR", "AUTHOR_WARNING",
    "AUTHOR_ERROR", "DEPRECATION_WARNING", "DEPRECATION_ERROR" }

Configs ==
  [ DevWarningsAsErrors : BOOLEAN, SuppressDevWarnings : BOOLEAN,
    DeprecatedWarningsAsErrors : BOOLEAN, SuppressDeprecatedWarnings : BOOLEAN ]

\* A backtrace is what PrintTitle and PrintCallStack append for it.
NoBacktrace == [ title |-> "", callStack |-> "" ]
SomeBacktrace ==
  [ title |-> " at CMakeLists.txt:3 (message)",
    callStack |-> "Call Stack (most recent call first):\n  a.cmake:9 (f)\n\n" ]

\* The (text, backtrace) arguments handed to IssueMessage; every text is a
\* single short paragraph.
Arguments ==
  { [ text |-> "X is deprecated", backtrace |-> NoBacktrace ],
    [ text |-> "X is deprecated", backtrace |-> SomeBacktrace ],
    [ text |-> "boom", backtrace |-> SomeBacktrace ] }

\* What cmsys::SystemInformation::GetProgramStack may return.
Stacks == { "", "WARNING: frame0\nframe1", "frame0" }

NoMetadata == [ title |-> "", desiredColor |-> "Normal" ]
NoEntry == [ req |-> "LOG", text |-> "", backtrace |-> NoBacktrace,
             sinkLen |-> 0, err |-> FALSE, stack |-> "" ]

\* ------------------------------------------------------------------ functions

\* Variant: the two pairs read each other's "as errors" flag.
ConvertMessageType_SwappedFlags(mt, c) ==
  IF mt = "AUTHOR_WARNING" \/ mt = "AUTHOR_ERROR"
  THEN IF c.DeprecatedWarningsAsErrors /\ mt = "AUTHOR_WARNING" THEN "AUTHOR_ERROR"
       ELSE IF ~c.DeprecatedWarningsAsErrors /\ mt = "AUTHOR_ERROR"
       THEN "AUTHOR_WARNING"
       ELSE mt
  ELSE IF mt = "DEPRECATION_WARNING" \/ mt = "DEPRECATION_ERROR"
  THEN IF c.DevWarningsAsErrors /\ mt = "DEPRECATION_WARNING"
       THEN "DEPRECATION_ERROR"
       ELSE IF ~c.DevWarningsAsErrors /\ mt = "DEPRECATION_ERROR"
       THEN "DEPRECATION_WARNING"
       ELSE mt
  ELSE mt

\* Variant: the demotion tests lack their negation, so with "as errors" set
\* a warning becomes an error and an error becomes a warning.
ConvertMessageType_Toggle(mt, c) ==
  IF mt = "AUTHOR_WARNING" \/ mt = "AUTHOR_ERROR"
  THEN IF c.DevWarningsAsErrors /\ mt = "AUTHOR_WARNING" THEN "AUTHOR_ERROR"
       ELSE IF c.DevWarningsAsErrors /\ mt = "AUTHOR_ERROR" THEN "AUTHOR_WARNING"
       ELSE mt
  ELSE IF mt = "DEPRECATION_WARNING" \/ mt = "DEPRECATION_ERROR"
  THEN IF c.DeprecatedWarningsAsErrors /\ mt = "DEPRECATION_WARNING"
       THEN "DEPRECATION_ERROR"
       ELSE IF c.DeprecatedWarningsAsErrors /\ mt = "DEPRECATION_ERROR"
       THEN "DEPRECATION_WARNING"
       ELSE mt
  ELSE mt

ConvertMessageType(mt, c) ==
  IF mt = "AUTHOR_WARNING" \/ mt = "AUTHOR_ERROR"
  THEN IF c.DevWarningsAsErrors /\ mt = "AUTHOR_WARNING" THEN "AUTHOR_ERROR"
       ELSE IF ~c.DevWarningsAsErrors /\ mt = "AUTHOR_ERROR" THEN "AUTHOR_WARNING"
       ELSE mt
  ELSE IF mt = "DEPRECATION_WARNING" \/ mt = "DEPRECATION_ERROR"
  THEN IF c.DeprecatedWarningsAsErrors /\ mt = "DEPRECATION_WARNING"
       THEN "DEPRECATION_ERROR"
       ELSE IF ~c.DeprecatedWarningsAsErrors /\ mt = "DEPRECATION_ERROR"
       THEN "DEPRECATION_WARNING"
       ELSE mt
  ELSE mt

\* Variant: the AUTHOR_ERROR branch is missing.
IsMessageTypeVisible_NoAuthorError(mt, c) ==
  IF mt = "DEPRECATION_ERROR" THEN c.DeprecatedWarningsAsErrors
  ELSE IF mt = "DEPRECATION_WARNING" THEN ~c.SuppressDeprecatedWarnings
  ELSE IF mt = "AUTHOR_WARNING" THEN ~c.SuppressDevWarnings
  ELSE TRUE

\* Variant: DEPRECATION_WARNING reads the developer suppression flag.
IsMessageTypeVisible_SwappedSuppress(mt, c) ==
  IF mt = "DEPRECATION_ERROR" THEN c.DeprecatedWarningsAsErrors
  ELSE IF mt = "DEPRECATION_WARNING" THEN ~c.SuppressDevWarnings
  ELSE IF mt = "AUTHOR_ERROR" THEN c.DevWarningsAsErrors
  ELSE IF mt = "AUTHOR_WARNING" THEN ~c.SuppressDevWarnings
  ELSE TRUE

IsMessageTypeVisible(mt, c) ==
  IF mt = "DEPRECATION_ERROR" THEN c.DeprecatedWarningsAsErrors
  ELSE IF mt = "DEPRECATION_WARNING" THEN ~c.SuppressDeprecatedWarnings
  ELSE IF mt = "AUTHOR_ERROR" THEN c.DevWarningsAsErrors
  ELSE IF mt = "AUTHOR_WARNING" THEN ~c.SuppressDevWarnings
  ELSE TRUE

printMessagePreamble(mt) ==
  IF mt = "FATAL_ERROR" THEN "CMake Error"
  ELSE IF mt = "INTERNAL_ERROR" THEN "CMake Internal Error (please report a bug)"
  ELSE IF mt = "LOG" THEN "CMake Debug Log"
  ELSE IF mt = "DEPRECATION_ERROR" THEN "CMake Deprecation Error"
  ELSE IF mt = "DEPRECATION_WARNING" THEN "CMake Deprecation Warning"
  ELSE IF mt = "AUTHOR_WARNING" THEN "CMake Warning (dev)"
  ELSE IF mt = "AUTHOR_ERROR" THEN "CMake Error (dev)"
  ELSE "CMake Warning"

\* Variant: DEPRECATION_ERROR is coloured like the other errors.
getMessageColor_DeprecationRed(mt) ==
  CASE mt \in { "INTERNAL_ERROR", "FATAL_ERROR", "AUTHOR_ERROR",
                "DEPRECATION_ERROR" } -> "Red"
    [] mt \in { "AUTHOR_WARNING", "WARNING" } -> "Yellow"
    [] OTHER -> "Normal"

getMessageColor(mt) ==
  CASE mt \in { "INTERNAL_ERROR", "FATAL_ERROR", "AUTHOR_ERROR" } -> "Red"
    [] mt \in { "AUTHOR_WARNING", "WARNING" } -> "Yellow"
    [] OTHER -> "Normal"

\* cmDocumentationFormatter::PrintFormatted with indent "  ", for a text that
\* is one short paragraph: the indent, the paragraph, a newline.
PrintFormatted(txt) == "  " \o txt \o "\n"

printMessageText(txt) == ":\n" \o PrintFormatted(txt)

\* cmListFileBacktrace::PrintTitle / PrintCallStack: append-only renderings.
PrintTitle(bt) == bt.title
PrintCallStack(bt) == bt.callStack

\* Variant: the two notes are exchanged.
SuppressionNote_Swapped(mt) ==
  IF mt = "AUTHOR_ERROR"
  THEN "This warning is for project developers.  Use -Wno-dev to suppress it."
  ELSE IF mt = "AUTHOR_WARNING"
  THEN "This error is for project developers. Use -Wno-error=dev to suppress it."
  ELSE ""

\* displayMessage, "Add a note about warning suppression."
SuppressionNote(mt) ==
  IF mt = "AUTHOR_WARNING"
  THEN "This warning is for project developers.  Use -Wno-dev to suppress it."
  ELSE IF mt = "AUTHOR_ERROR"
  THEN "This error is for project developers. Use -Wno-error=dev to suppress it."
  ELSE ""

cmHasLiteralPrefix(str, prefix) ==
  Len(str) >= Len(prefix) /\ SubSeq(str, 1, Len(prefix)) = prefix

\* displayMessage, "Add a C++ stack trace to internal errors."
ProgramStackNote(mt, stack) ==
  IF mt = "INTERNAL_ERROR" /\ stack # ""
  THEN (IF cmHasLiteralPrefix(stack, "WARNING:")
        THEN "Note:" \o SubSeq(stack, 9, Len(stack))
        ELSE stack) \o "\n"
  ELSE ""

\* Variant: DEPRECATION_ERROR takes the "Warning" branch.
IsErrorBranch_NoDeprecation(mt) ==
  mt = "FATAL_ERROR" \/ mt = "INTERNAL_ERROR" \/ mt = "AUTHOR_ERROR"

\* displayMessage, the test that selects the "Error" branch.
IsErrorBranch(mt) ==
  mt = "FATAL_ERROR" \/ mt = "INTERNAL_ERROR" \/ mt = "DEPRECATION_ERROR"
    \/ mt = "AUTHOR_ERROR"

\* cmSystemTools::SetErrorOccured(): the new value of the flag.
SetErrorOccured(flag) == TRUE

\* Variant: force is set but the assignment "t = override" is missing.
OverrideMessageType_KeepsType(mt, c) ==
  [ t |-> mt, force |-> ConvertMessageType(mt, c) # mt ]

\* IssueMessage, "override the message type, if needed": t and force after
\* the first block.
OverrideMessageType(mt, c) ==
  LET override == ConvertMessageType(mt, c)
  IN IF override # mt THEN [ t |-> override, force |-> TRUE ]
     ELSE [ t |-> mt, force |-> FALSE ]

\* Variant: the filter is consulted also on the forced path.
Suppressed_IgnoresForce(mt, forced, c) == ~IsMessageTypeVisible(mt, c)

\* IssueMessage, "if (!force && !this->IsMessageTypeVisible(t)) return;"
Suppressed(mt, forced, c) == ~forced /\ ~IsMessageTypeVisible(mt, c)

\* ------------------------------------------------------------------ Init

Init ==
  /\ cfg \in Configs
  /\ bootstrap \in BOOLEAN
  /\ errorOccurred = FALSE
  /\ sink = << >>
  /\ pc = "idle"
  /\ t = "LOG"
  /\ text = ""
  /\ backtrace = NoBacktrace
  /\ force = FALSE
  /\ msg = ""
  /\ md = NoMetadata
  /\ entry = NoEntry
  /\ calls = << >>
  /\ queries = << >>

\* ------------------------------------------------------------------ actions

queryVars == << queries >>
configVars == << cfg, bootstrap >>
frameVars == << t, text, backtrace, force, msg, md, entry >>

\* The parameters and locals of the three frames end with the call.
ReleaseFrames ==
  /\ t' = "LOG"
  /\ text' = ""
  /\ backtrace' = NoBacktrace
  /\ force' = FALSE
  /\ msg' = ""
  /\ md' = NoMetadata
  /\ entry' = NoEntry

\* The record appended to calls when IssueMessage returns.
Returned(e, eff, forced, sinkNow, errNow) ==
  [ req |-> e.req, text |-> e.text, backtrace |-> e.backtrace,
    stack |-> e.stack, t |-> eff, force |-> forced,
    sinkBefore |-> e.sinkLen, sinkAfter |-> Len(sinkNow),
    errBefore |-> e.err, errAfter |-> errNow ]

\* cmMessenger::IssueMessage up to its return or its call of DisplayMessage.
IssueMessage(reqT, txt, bt) ==
  /\ pc = "idle"
  /\ Len(calls) < MaxCalls
  /\ LET o == OverrideMessageType(reqT, cfg)
         e == [ req |-> reqT, text |-> txt, backtrace |-> bt,
                sinkLen |-> Len(sink), err |-> errorOccurred, stack |-> "" ]
     IN IF Suppressed(o.t, o.force, cfg)
        THEN /\ calls' = Append(calls, Returned(e, o.t, o.force, sink, errorOccurred))
             /\ pc' = "idle"
             /\ UNCHANGED frameVars
        ELSE /\ t' = o.t
             /\ force' = o.force
             /\ text' = txt
             /\ backtrace' = bt
             /\ entry' = e
             /\ pc' = "DisplayMessage"
             /\ UNCHANGED << calls, msg, md >>
  /\ UNCHANGED << errorOccurred, sink >>
  /\ UNCHANGED configVars
  /\ UNCHANGED queryVars

\* cmMessenger::DisplayMessage up to its call of displayMessage.
DisplayMessage ==
  /\ pc = "DisplayMessage"
  /\ msg' = printMessagePreamble(t) \o PrintTitle(backtrace)
              \o printMessageText(text) \o PrintCallStack(backtrace)
  /\ pc' = "displayMessage"
  /\ UNCHANGED << errorOccurred, sink, t, text, backtrace, force, md, entry, calls >>
  /\ UNCHANGED configVars
  /\ UNCHANGED queryVars

\* Variant of displayMessage: the "Error" branch lacks SetErrorOccured().
displayMessage_FlagMissing(stack) ==
  /\ pc = "displayMessage"
  /\ (bootstrap \/ t # "INTERNAL_ERROR") => stack = ""
  /\ msg' = msg \o SuppressionNote(t) \o "\n" \o ProgramStackNote(t, stack)
  /\ entry' = [ entry EXCEPT !.stack = stack ]
  /\ md' = [ title |-> IF IsErrorBranch(t) THEN "Error" ELSE "Warning",
              desiredColor |-> getMessageColor(t) ]
  /\ pc' = "Message"
  /\ UNCHANGED << errorOccurred, sink, t, text, backtrace, force, calls >>
  /\ UNCHANGED configVars
  /\ UNCHANGED queryVars

\* displayMessage up to (not including) its call of cmSystemTools::Message.
displayMessage(stack) ==
  /\ pc = "displayMessage"
  /\ (bootstrap \/ t # "INTERNAL_ERROR") => stack = ""
  /\ msg' = msg \o SuppressionNote(t) \o "\n" \o ProgramStackNote(t, stack)
  /\ entry' = [ entry EXCEPT !.stack = stack ]
  /\ IF IsErrorBranch(t)
     THEN /\ errorOccurred' = SetErrorOccured(errorOccurred)
          /\ md' = [ title |-> "Error", desiredColor |-> getMessageColor(t) ]
     ELSE /\ errorOccurred' = errorOccurred
          /\ md' = [ title |-> "Warning", desiredColor |-> getMessageColor(t) ]
  /\ pc' = "Message"
  /\ UNCHANGED << sink, t, text, backtrace, force, calls >>
  /\ UNCHANGED configVars
  /\ UNCHANGED queryVars

\* cmSystemTools::Message(msg.str(), md), then the return of all three frames.
Message ==
  /\ pc = "Message"
  /\ sink' = Append(sink, [ text |-> msg, title |-> md.title,
                            desiredColor |-> md.desiredColor ])
  /\ calls' = Append(calls, Returned(entry, t, force, sink', errorOccurred))
  /\ pc' = "idle"
  /\ ReleaseFrames
  /\ UNCHANGED errorOccurred
  /\ UNCHANGED configVars
  /\ UNCHANGED queryVars

Next ==
  \/ \E reqT \in MessageType, a \in Arguments :
       IssueMessage(reqT, a.text, a.backtrace)
  \/ DisplayMessage
  \/ \E stack \in Stacks : displayMessage(stack)
  \/ Message

Spec == Init /\ [][Next]_vars

\* ------------------------------------------------- direct calls of the
\* two const member functions (no IssueMessage in flight)

pipelineVars == << errorOccurred, sink, pc, t, text, backtrace, force, msg, md,
                   entry, calls >>

CallConvertMessageType(mt) ==
  /\ Len(queries) < MaxQueries
  /\ queries' = Append(queries, [ fn |-> "ConvertMessageType", arg |-> mt,
                                   ret |-> ConvertMessageType(mt, cfg) ])
  /\ UNCHANGED configVars
  /\ UNCHANGED pipelineVars

\* ConvertMessageType applied to what the previous call of it returned.
CallConvertMessageTypeAgain ==
  /\ queries # << >>
  /\ queries[Len(queries)].fn = "ConvertMessageType"
  /\ CallConvertMessageType(queries[Len(queries)].ret)

CallIsMessageTypeVisible(mt) ==
  /\ Len(queries) < MaxQueries
  /\ queries' = Append(queries, [ fn |-> "IsMessageTypeVisible", arg |-> mt,
                                   ret |-> IsMessageTypeVisible(mt, cfg) ])
  /\ UNCHANGED configVars
  /\ UNCHANGED pipelineVars

QueryNext ==
  \/ \E mt \in MessageType : CallConvertMessageType(mt)
  \/ CallConvertMessageTypeAgain
  \/ \E mt \in MessageType : CallIsMessageTypeVisible(mt)

QuerySpec == Init /\ [][QueryNext]_vars

\* ------------------------------------------------------------------ properties

HasPrefix(str, prefix) ==
  Len(str) >= Len(prefix) /\ SubSeq(str, 1, Len(prefix)) = prefix

HasSuffix(str, suffix) ==
  Len(str) >= Len(suffix)
    /\ SubSeq(str, Len(str) - Len(suffix) + 1, Len(str)) = suffix

\* A returned call handed a block to the sink; Block is that block.
Dispatched(c) == c.sinkAfter > c.sinkBefore
Block(c) == sink[c.sinkAfter]
Returns == { calls[k] : k \in 1..Len(calls) }

\* The tables of the specification, by severity.
ErrorClass == { "FATAL_ERROR", "INTERNAL_ERROR", "DEPRECATION_ERROR", "AUTHOR_ERROR" }

LabelOf(mt) ==
  CASE mt = "FATAL_ERROR" -> "CMake Error"
    [] mt = "INTERNAL_ERROR" -> "CMake Internal Error (please report a bug)"
    [] mt = "LOG" -> "CMake Debug Log"
    [] mt = "DEPRECATION_ERROR" -> "CMake Deprecation Error"
    [] mt = "DEPRECATION_WARNING" -> "CMake Deprecation Warning"
    [] mt = "AUTHOR_WARNING" -> "CMake Warning (dev)"
    [] mt = "AUTHOR_ERROR" -> "CMake Error (dev)"
    [] mt = "WARNING" -> "CMake Warning"

HintOf(mt) ==
  CASE mt = "AUTHOR_WARNING" ->
         "This warning is for project developers.  Use -Wno-dev to suppress it."
    [] mt = "AUTHOR_ERROR" ->
         "This error is for project developers. Use -Wno-error=dev to suppress it."
    [] OTHER -> ""

TitleOf(mt) == IF mt \in ErrorClass THEN "Error" ELSE "Warning"

ColorOf(mt) ==
  CASE mt \in { "INTERNAL_ERROR", "FATAL_ERROR", "AUTHOR_ERROR" } -> "Red"
    [] mt \in { "AUTHOR_WARNING", "WARNING" } -> "Yellow"
    [] mt \in { "LOG", "DEPRECATION_WARNING", "DEPRECATION_ERROR" } -> "Normal"

\* C1: one IssueMessage call hands exactly one complete block to the sink
\* when ConvertMessageType changes the requested severity or the requested
\* severity is visible, and nothing otherwise; nothing reaches the sink before
\* the block is complete, and never more than one block per call.
C1_OneBlockOrNothing ==
  /\ \A c \in Returns :
        /\ c.sinkAfter - c.sinkBefore =
             IF ConvertMessageType(c.req, cfg) # c.req
                  \/ IsMessageTypeVisible(c.req, cfg)
             THEN 1 ELSE 0
        /\ Dispatched(c) =>
             /\ HasPrefix(Block(c).text, "CMake ")
             /\ HasSuffix(Block(c).text, "\n")
             /\ Block(c).title \in { "Error", "Warning" }
  /\ pc # "idle" => Len(sink) = entry.sinkLen
  /\ pc = "idle" /\ calls # << >> => Len(sink) = calls[Len(calls)].sinkAfter

C1_Witness ==
  \E c, d \in Returns :
    /\ Dispatched(c) /\ c.force
    /\ ~Dispatched(d)

\* C2: ConvertMessageType escalates a developer/deprecation warning when the
\* pair's "as errors" flag is set, demotes the pair's error when it is not,
\* and returns every other input unchanged, whatever the suppress flags are.
C2_ConvertTable ==
  \A k \in 1..Len(queries) :
    LET q == queries[k] IN
    q.fn = "ConvertMessageType" =>
      q.ret =
        CASE q.arg = "AUTHOR_WARNING" /\ cfg.DevWarningsAsErrors -> "AUTHOR_ERROR"
          [] q.arg = "AUTHOR_ERROR" /\ ~cfg.DevWarningsAsErrors -> "AUTHOR_WARNING"
          [] q.arg = "DEPRECATION_WARNING" /\ cfg.DeprecatedWarningsAsErrors ->
               "DEPRECATION_ERROR"
          [] q.arg = "DEPRECATION_ERROR" /\ ~cfg.DeprecatedWarningsAsErrors ->
               "DEPRECATION_WARNING"
          [] OTHER -> q.arg

C2_Witness ==
  \E j, k \in 1..Len(queries) :
    /\ queries[j].fn = "ConvertMessageType" /\ queries[j].arg = "AUTHOR_WARNING"
    /\ queries[j].ret = "AUTHOR_ERROR"
    /\ queries[k].fn = "ConvertMessageType" /\ queries[k].arg = "DEPRECATION_ERROR"
    /\ queries[k].ret = "DEPRECATION_WARNING"
    /\ cfg.SuppressDevWarnings /\ cfg.SuppressDeprecatedWarnings

\* C3: IsMessageTypeVisible returns deprecatedWarningsAsErrors for
\* DeprecationError, NOT suppressDeprecatedWarnings for DeprecationWarning,
\* devWarningsAsErrors for DeveloperError, NOT suppressDevWarnings for
\* DeveloperWarning, and TRUE for the four other severities.
C3_VisibleTable ==
  \A k \in 1..Len(queries) :
    LET q == queries[k] IN
    q.fn = "IsMessageTypeVisible" =>
      q.ret =
        CASE q.arg = "DEPRECATION_ERROR" -> cfg.DeprecatedWarningsAsErrors
          [] q.arg = "DEPRECATION_WARNING" -> ~cfg.SuppressDeprecatedWarnings
          [] q.arg = "AUTHOR_ERROR" -> cfg.DevWarningsAsErrors
          [] q.arg = "AUTHOR_WARNING" -> ~cfg.SuppressDevWarnings
          [] q.arg \in { "LOG", "WARNING", "FATAL_ERROR", "INTERNAL_ERROR" } -> TRUE

C3_Witness ==
  \E j, k \in 1..Len(queries) :
    /\ queries[j].fn = "IsMessageTypeVisible" /\ queries[j].arg = "AUTHOR_ERROR"
    /\ queries[j].ret = FALSE
    /\ queries[k].fn = "IsMessageTypeVisible" /\ queries[k].arg = "DEPRECATION_WARNING"
    /\ queries[k].ret = TRUE

\* C4: ConvertMessageType is idempotent: applied to its own result under the
\* same configuration it returns that result.
C4_ConvertIdempotent ==
  \A k \in 1..(Len(queries) - 1) :
    ( /\ queries[k].fn = "ConvertMessageType"
      /\ queries[k + 1].fn = "ConvertMessageType"
      /\ queries[k + 1].arg = queries[k].ret )
    => queries[k + 1].ret = queries[k].ret

C4_Witness ==
  \E k \in 1..(Len(queries) - 1) :
    /\ queries[k].fn = "ConvertMessageType"
    /\ queries[k + 1].fn = "ConvertMessageType"
    /\ queries[k].ret # queries[k].arg
    /\ queries[k + 1].arg = queries[k].ret
    /\ queries[k + 1].ret = queries[k].ret

\* C5: a message whose severity classification changed is dispatched even
\* when the filter would suppress the resulting severity, and label, hint,
\* title, colour and the error flag follow the effective severity, never the
\* requested one; requested DeveloperError with devWarningsAsErrors = FALSE
\* and suppressDevWarnings = TRUE comes out as "CMake Warning (dev)" with the
\* -Wno-dev hint, title "Warning", colour Yellow and the error flag untouched.
C5_ForcedFollowsEffective ==
  \A c \in Returns :
    LET eff == ConvertMessageType(c.req, cfg) IN
    eff # c.req =>
      /\ Dispatched(c)
      /\ HasPrefix(Block(c).text, LabelOf(eff) \o c.backtrace.title \o ":\n")
      /\ ~HasPrefix(Block(c).text, LabelOf(c.req) \o c.backtrace.title \o ":\n")
      /\ HasSuffix(Block(c).text, c.backtrace.callStack \o HintOf(eff) \o "\n")
      /\ Block(c).title = TitleOf(eff)
      /\ Block(c).desiredColor = ColorOf(eff)
      /\ c.errAfter = (c.errBefore \/ eff \in ErrorClass)
      /\ ( c.req = "AUTHOR_ERROR" =>
             /\ HasPrefix(Block(c).text, "CMake Warning (dev)")
             /\ HasSuffix(Block(c).text,
                  "This warning is for project developers.  Use -Wno-dev to suppress it.\n")
             /\ Block(c).title = "Warning"
             /\ Block(c).desiredColor = "Yellow"
             /\ c.errAfter = c.errBefore )

C5_Witness ==
  /\ ~cfg.DevWarningsAsErrors /\ cfg.SuppressDevWarnings
  /\ ~errorOccurred
  /\ \E c \in Returns :
       /\ c.req = "AUTHOR_ERROR" /\ c.t = "AUTHOR_WARNING"
       /\ ~IsMessageTypeVisible(c.t, cfg)
       /\ Dispatched(c)
       /\ Block(c).title = "Warning"

\* C6: starting with the error flag FALSE, after any sequence of IssueMessage
\* calls the flag is TRUE iff some call dispatched a message whose effective
\* severity is FatalError, InternalError, DeprecationError or DeveloperError;
\* a suppressed call or a dispatch of another severity leaves it unchanged,
\* and no call resets it.
C6_ErrorFlag ==
  /\ pc = "idle" =>
       ( errorOccurred <=> \E c \in Returns : Dispatched(c) /\ c.t \in ErrorClass )
  /\ \A c \in Returns :
       /\ ~(Dispatched(c) /\ c.t \in ErrorClass) => c.errAfter = c.errBefore
       /\ c.errBefore => c.errAfter
  /\ \A k \in 1..(Len(calls) - 1) : calls[k + 1].errBefore = calls[k].errAfter
  /\ calls # << >> => ~calls[1].errBefore
  /\ pc = "idle" /\ calls # << >> => errorOccurred = calls[Len(calls)].errAfter
  /\ pc # "idle" => (entry.err => errorOccurred)

C6_Witness ==
  /\ pc = "idle" /\ Len(calls) >= 2 /\ errorOccurred
  /\ Dispatched(calls[1]) /\ calls[1].t = "DEPRECATION_ERROR"
  /\ Dispatched(calls[2]) /\ calls[2].t = "WARNING"

\* C7: the metadata of a dispatched message is a function of the effective
\* severity alone: title "Error" exactly for FatalError, InternalError,
\* DeprecationError, DeveloperError and "Warning" otherwise (Log included);
\* colour Red for InternalError, FatalError, DeveloperError, Yellow for
\* DeveloperWarning, Warning, and Normal for Log, DeprecationWarning,
\* DeprecationError.
C7_Metadata ==
  \A c \in Returns :
    Dispatched(c) =>
      /\ Block(c).title = TitleOf(c.t)
      /\ Block(c).desiredColor = ColorOf(c.t)

C7_Witness ==
  \E c, d \in Returns :
    /\ Dispatched(c) /\ c.t = "DEPRECATION_ERROR"
    /\ Block(c).title = "Error" /\ Block(c).desiredColor = "Normal"
    /\ Dispatched(d) /\ d.t = "LOG"
    /\ Block(d).title = "Warning" /\ Block(d).desiredColor = "Normal"

\* The stack capture as it is appended: a leading "WARNING:" becomes "Note:".
NoteOf(stack) ==
  IF HasPrefix(stack, "WARNING:")
  THEN "Note:" \o SubSeq(stack, 9, Len(stack))
  ELSE stack

\* C8: the text of a dispatched message is, in this order and with nothing
\* else: the label of the effective severity, the backtrace title, ":\n",
\* the 2-space-indented wrapped text, the backtrace call stack, the hint (only
\* DeveloperWarning and DeveloperError, each its own), one "\n", and only for
\* InternalError with a non-empty stack capture the capture, a leading
\* "WARNING:" replaced by "Note:", and "\n".  Warning, "X is deprecated" and
\* an empty backtrace give "CMake Warning:\n  X is deprecated\n\n".
C8_BlockText ==
  \A c \in Returns :
    Dispatched(c) =>
      /\ Block(c).text =
           LabelOf(c.t) \o c.backtrace.title \o ":\n" \o PrintFormatted(c.text)
             \o c.backtrace.callStack \o HintOf(c.t) \o "\n"
             \o (IF c.t = "INTERNAL_ERROR" /\ c.stack # ""
                 THEN NoteOf(c.stack) \o "\n" ELSE "")
      /\ ( c.t = "WARNING" /\ c.text = "X is deprecated"
             /\ c.backtrace = NoBacktrace )
           => Block(c).text = "CMake Warning:\n  X is deprecated\n\n"

C8_Witness ==
  \E c, d \in Returns :
    /\ Dispatched(c) /\ c.t = "WARNING" /\ c.backtrace = NoBacktrace
    /\ Block(c).text = "CMake Warning:\n  X is deprecated\n\n"
    /\ Dispatched(d) /\ d.t = "INTERNAL_ERROR" /\ d.backtrace = SomeBacktrace
    /\ d.stack = "WARNING: frame0\nframe1"
    /\ HasSuffix(Block(d).text, "\n\n\nNote: frame0\nframe1\n")

\* C9: within a call that dispatches a message with title "Error" the error
\* flag is set before the text is written: no state has an "Error" block in
\* the sink, or about to be written, while the flag is FALSE.
C9_FlagBeforeWrite ==
  /\ \A i \in 1..Len(sink) : sink[i].title = "Error" => errorOccurred
  /\ pc = "Message" /\ md.title = "Error" => errorOccurred

C9_Witness ==
  /\ pc = "Message" /\ md.title = "Error"
  /\ ~entry.err /\ errorOccurred
  /\ Len(sink) = entry.sinkLen

\* C10: through IssueMessage a message is suppressed in exactly two cases:
\* requested DeveloperWarning with devWarningsAsErrors = FALSE and
\* suppressDevWarnings = TRUE, or requested DeprecationWarning with
\* deprecatedWarningsAsErrors = FALSE and suppressDeprecatedWarnings = TRUE;
\* a requested DeveloperError or DeprecationError is never suppressed.
C10_SuppressedCases ==
  \A c \in Returns :
    /\ ~Dispatched(c) <=>
         \/ /\ c.req = "AUTHOR_WARNING"
            /\ ~cfg.DevWarningsAsErrors /\ cfg.SuppressDevWarnings
         \/ /\ c.req = "DEPRECATION_WARNING"
            /\ ~cfg.DeprecatedWarningsAsErrors /\ cfg.SuppressDeprecatedWarnings
    /\ c.req \in { "AUTHOR_ERROR", "DEPRECATION_ERROR" } => Dispatched(c)

C10_Witness ==
  \E c, d \in Returns :
    /\ c.req = "DEPRECATION_WARNING" /\ ~Dispatched(c)
    /\ d.req = "DEPRECATION_ERROR" /\ Dispatched(d)
    /\ ~IsMessageTypeVisible(d.req, cfg)

====
